---- MODULE Spec2Model ----
(***************************************************************************)
(* The SAP analysis orchestration: the SAPAnalysisFlow stage chain         *)
(* (app/flows/sap_analysis_flow.py), the analysis service with its         *)
(* in-memory status store and background task                              *)
(* (app/services/analysis_service.py) and the API routes                   *)
(* (app/api/routes.py).                                                    *)
(*                                                                         *)
(* Python values are represented as follows.  An Optional[...] object      *)
(* field is a tuple: <<>> is None, <<v>> is the value v.  An Optional[str] *)
(* is the string "None" or the string itself.  A text is a tuple of word   *)
(* tokens, <<>> being the empty string.  A dict or a pydantic model is a   *)
(* record; "attribute f exists" is f \in DOMAIN r.                         *)
(***************************************************************************)
EXTENDS Integers, Sequences, FiniteSets, TLC

VARIABLES
    state,          \* SAPAnalysisFlow.state : SAPAnalysisState
    request,        \* the AnalysisRequest handed to kickoff
    pc,             \* the flow method the driver runs next, "done" or "failed"
    entry,          \* the flow method the driver started the chain at
    executed,       \* history: the flow methods run so far, in order
    progress_log,   \* history: every value written to state.progress_percentage
    final_report,   \* history: generate_final_report's local final_report
    raised,         \* the exception that left the flow, <<>> when none
    save_calls,     \* history: the calls of firestore_service.save_analysis_result
    inputs,         \* history: generate_final_report's local inputs, <<>> until built
    analysis_status_store,  \* analysis_service.analysis_status_store
    analysis_results,       \* the Firestore collection "analysis_results"
    task,           \* per analysis id: position of process_analysis_task
    response        \* the last API response

vars == <<state, request, pc, entry, executed, progress_log, final_report,
          raised, save_calls, inputs, analysis_status_store, analysis_results,
          task, response>>

flowVars == <<state, request, pc, entry, executed, progress_log, final_report,
              raised, save_calls, inputs>>

serviceVars == <<analysis_status_store, analysis_results, task, response>>

----------------------------------------------------------------------------
(* Bounds *)

\* number of analyses the service starts
MaxRuns == 1

\* length of the raw texts the analyzers return
MaxRawLen == 2

\* number of background tasks that run side by side
MaxConcurrent == 2

----------------------------------------------------------------------------
(* base_models.py, api_models.py *)

PENDING == "pending"

PROCESSING == "processing"

COMPLETED == "completed"

ERROR == "error"

AnalysisStatus == {PENDING, PROCESSING, COMPLETED, ERROR}

\* AnalysisRequest declares the six fields below and no requirements_file_id.
\* The requests that pass pydantic validation: presentation_id is any str
\* (the empty one included), the optional fields are None or a value.
AnalysisRequests ==
    [presentation_id : {"", "P1"},
     requirements_file_info : {<<>>, <<"requirements.csv">>},
     meeting_transcript_id : {"None", "M1"},
     sap_module : {"FI"},
     analysis_type : {"full_analysis"},
     additional_context : {"None", "ctx"}]

\* The requests the flow is kicked off with.
ValidRequests == {r \in AnalysisRequests : r.presentation_id # ""}

\* SAPAnalysisState declares the fields below and no requirements_file_id.
\* SAPAnalysisState(...) built from the inputs of a request: every other field
\* takes its declared default.
SAPAnalysisState(id, req) ==
    [analysis_id |-> id,
     presentation_id |-> req.presentation_id,
     requirements_file_info |-> req.requirements_file_info,
     meeting_transcript_id |-> req.meeting_transcript_id,
     sap_module |-> req.sap_module,
     analysis_type |-> req.analysis_type,
     additional_context |-> req.additional_context,
     process_analysis_result |-> <<>>,
     requirements_analysis_result |-> <<>>,
     gap_analysis_result |-> <<>>,
     meeting_analysis_result |-> <<>>,
     final_result |-> <<>>,
     status |-> PENDING,
     progress_percentage |-> 0,
     current_stage |-> "None",
     error_message |-> <<>>]

----------------------------------------------------------------------------
(* The analyzers (crews) *)

Words == {"gap", "critico"}

\* every text of at most MaxRawLen words
RawTexts == UNION {[1..n -> Words] : n \in 0..MaxRawLen}

\* What crew().kickoff(inputs) can do: raise, or return an output with a raw text.
CrewOutcomes ==
    {[raises |-> TRUE, cause |-> "ServiceError", raw |-> <<>>]}
        \cup {[raises |-> FALSE, cause |-> "None", raw |-> t] : t \in RawTexts}

_extract_crew_output(crew_result) ==
    [raw_output |-> crew_result.raw,
     tasks_outputs |-> <<>>,
     tokens_used |-> 0,
     execution_time |-> 0]

----------------------------------------------------------------------------
(* SAPAnalysisFlow: result construction.  Portuguese texts are written     *)
(* without their diacritics.                                               *)

Min(a, b) == IF a <= b THEN a ELSE b

Max(a, b) == IF a >= b THEN a ELSE b

\* the slice [:1000] applied to the summary
SummaryLimit == 1000

Truncate(text) == SubSeq(text, 1, Min(Len(text), SummaryLimit))

\* dict.get(key, default)
DictGet(d, key, default) == IF key \in DOMAIN d THEN d[key] ELSE default

\* text.lower().count(k) summed over the keywords: the words of the text that
\* are one of the keywords
CountKeywords(text, keywords) ==
    Cardinality({i \in 1..Len(text) : text[i] \in keywords})

\* The extraction helpers as first defined (lines 512-696); the class body
\* defines each name a second time further down.
_extract_overall_summary_shadowed(st, report) ==
    LET summary == DictGet(report, "raw_output", <<>>)
        parts ==
            (IF st.process_analysis_result # <<>>
                THEN <<"Analise de processos concluida.">> ELSE <<>>)
            \o (IF st.requirements_analysis_result # <<>>
                THEN <<"Analise de requisitos realizada.">> ELSE <<>>)
            \o (IF st.gap_analysis_result # <<>>
                THEN <<"Gaps identificados e priorizados.">> ELSE <<>>)
            \o (IF st.meeting_analysis_result # <<>>
                THEN <<"Insights extraidos da reuniao.">> ELSE <<>>)
    IN  IF summary # <<>> THEN Truncate(summary)
        ELSE IF parts # <<>> THEN parts
        ELSE <<"Analise SAP concluida com sucesso.">>

_count_requirements_shadowed(st) ==
    IF st.requirements_analysis_result = <<>> THEN 0
    ELSE LET out == DictGet(st.requirements_analysis_result[1], "raw_output", <<>>)
         IN  IF out # <<>> THEN Max(CountKeywords(out, {"requisito"}), 1) ELSE 0

_count_gaps_shadowed(st) ==
    IF st.gap_analysis_result = <<>> THEN 0
    ELSE LET out == DictGet(st.gap_analysis_result[1], "raw_output", <<>>)
         IN  IF out # <<>>
             THEN Max(CountKeywords(out, {"gap", "lacuna", "diferenca", "ausencia"}), 1)
             ELSE 0

_count_high_impact_gaps_shadowed(st) ==
    IF st.gap_analysis_result = <<>> THEN 0
    ELSE LET out == DictGet(st.gap_analysis_result[1], "raw_output", <<>>)
         IN  CountKeywords(out, {"critico", "alto impacto", "prioritario", "urgente"})

_extract_recommendations_shadowed(st, report) ==
    LET out == DictGet(report, "raw_output", <<>>)
        recs ==
            (IF CountKeywords(out, {"recomendacao"}) > 0
                THEN <<"Implementar melhorias identificadas na analise">> ELSE <<>>)
            \o (IF st.gap_analysis_result # <<>>
                THEN <<"Priorizar resolucao dos gaps criticos">> ELSE <<>>)
            \o (IF st.requirements_analysis_result # <<>>
                THEN <<"Revisar requisitos nao atendidos">> ELSE <<>>)
    IN  IF recs # <<>> THEN recs ELSE <<"Revisar resultado da analise">>

_extract_next_steps_shadowed(st, report) ==
    LET out == DictGet(report, "raw_output", <<>>)
    IN  (IF CountKeywords(out, {"proximo", "next"}) > 0
            THEN <<"Revisar analise detalhada">> ELSE <<>>)
        \o <<"Planejar implementacao das melhorias",
             "Validar solucoes propostas com stakeholders",
             "Definir cronograma de implementacao">>

\* Positional parameters, besides self, of the extraction helpers the class ends up
\* with: the second definitions (lines 698-732) replace the first ones, and each
\* takes one (tasks_outputs or crew_result).
HelperParams == 1

\* The try body of _create_structured_result (lines 465-493).  The entries built by
\* ProcessAnalysis(...) and RequirementAnalysis(...) name fields the models do not
\* declare, the helpers catch the validation error and return [].
StructuredResult(st, report) ==
    [analysis_id |-> st.analysis_id,
     presentation_analysis |-> <<>>,
     requirements_analysis |-> <<>>,
     overall_summary |-> _extract_overall_summary_shadowed(st, report),
     total_requirements |-> _count_requirements_shadowed(st),
     gaps_identified |-> _count_gaps_shadowed(st),
     high_impact_gaps |-> _count_high_impact_gaps_shadowed(st),
     recommendations |-> _extract_recommendations_shadowed(st, report),
     next_steps |-> _extract_next_steps_shadowed(st, report)]

\* A fallback result that carries no recommendation and no next step.
FallbackResultNoLists(st, report) ==
    [analysis_id |-> st.analysis_id,
     presentation_analysis |-> <<>>,
     requirements_analysis |-> <<>>,
     overall_summary |-> Truncate(DictGet(report, "raw_output", <<"Analise concluida">>)),
     total_requirements |-> 0,
     gaps_identified |-> 0,
     high_impact_gaps |-> 0,
     recommendations |-> <<>>,
     next_steps |-> <<>>]

\* The except branch of _create_structured_result (lines 495-510).
FallbackResult(st, report) ==
    [analysis_id |-> st.analysis_id,
     presentation_analysis |-> <<>>,
     requirements_analysis |-> <<>>,
     overall_summary |-> Truncate(DictGet(report, "raw_output", <<"Analise concluida">>)),
     total_requirements |-> 0,
     gaps_identified |-> 0,
     high_impact_gaps |-> 0,
     recommendations |-> <<"Revisar resultado da analise">>,
     next_steps |-> <<"Implementar melhorias identificadas">>]

\* A variant that lets the TypeError of the first helper call leave the method.
CreateStructuredResultUncaught(st, report) ==
    IF HelperParams # 0
    THEN [raises |-> TRUE, exc |-> "TypeError", value |-> FallbackResult(st, report)]
    ELSE [raises |-> FALSE, exc |-> "None", value |-> StructuredResult(st, report)]

\* A variant in which the call of line 466 reaches the helpers as first defined.
CreateStructuredResultFirstHelpers(st, report) ==
    [raises |-> FALSE, exc |-> "None", value |-> StructuredResult(st, report)]

\* Line 466 calls self._extract_presentation_analysis() with no argument: with a
\* helper that takes one, that is a TypeError, which the except branch turns into
\* the fallback result.
_create_structured_result(st, report) ==
    IF HelperParams # 0
    THEN [raises |-> FALSE, exc |-> "None", value |-> FallbackResult(st, report)]
    ELSE [raises |-> FALSE, exc |-> "None", value |-> StructuredResult(st, report)]

\* A variant of the save that runs its body at the call and fails when the
\* document store does.
SaveAwaited(analysis_id, result, available) ==
    [raises |-> ~available, exc |-> IF available THEN "None" ELSE "StoreError",
     stored |-> available]

\* firestore_service.save_analysis_result(...) as generate_final_report calls it
\* (lines 373-376): the method is `async def` and the call is not awaited, so the
\* call builds a coroutine object, runs none of the body, stores nothing and
\* cannot raise, whether or not Firestore is available at that moment.
save_analysis_result_call(analysis_id, result, available) ==
    [raises |-> FALSE, exc |-> "None", stored |-> FALSE]

----------------------------------------------------------------------------
(* SAPAnalysisFlow: the stage methods.  Each operator is one method run to *)
(* its return or its raise: st is self.state afterwards, writes the values *)
(* it wrote to progress_percentage, in order.                              *)

Returned(st, writes) ==
    [st |-> st, raises |-> FALSE, exc |-> "None", writes |-> writes]

Raised(st, exc, writes) ==
    [st |-> st, raises |-> TRUE, exc |-> exc, writes |-> writes]

\* A handler that logs and re-raises without recording the failure.
StageExceptSilent(st, prefix, e) == st

\* A handler that also resets the outputs of the stages that ran before.
StageExceptClearsOutputs(st, prefix, e) ==
    [st EXCEPT !.status = ERROR,
               !.error_message = <<prefix, e>>,
               !.process_analysis_result = <<>>,
               !.requirements_analysis_result = <<>>,
               !.gap_analysis_result = <<>>,
               !.meeting_analysis_result = <<>>]

\* The except block every stage method ends with (113-117, 159-167, 214-222,
\* 264-272, 319-327, 385-393): status and error_message are set, the exception is
\* raised again.  error_message is f"{prefix}: {e}".
stage_except(st, prefix, e) ==
    [st EXCEPT !.status = ERROR, !.error_message = <<prefix, e>>]

\* @start() initialize_analysis(self, request)
initialize_analysis(st, req, uuid) ==
    LET s1 == [st EXCEPT !.analysis_id = uuid,
                         !.presentation_id = req.presentation_id]
    IN  IF "requirements_file_id" \notin DOMAIN req
        THEN \* line 95 reads request.requirements_file_id
             Raised(stage_except(s1, "Erro na inicializacao", "AttributeError"),
                    "AttributeError", <<>>)
        ELSE IF "requirements_file_id" \notin DOMAIN s1
        THEN \* line 95 assigns a field the state model does not declare
             Raised(stage_except(s1, "Erro na inicializacao", "ValueError"),
                    "ValueError", <<>>)
        ELSE Returned([s1 EXCEPT !.requirements_file_id = req.requirements_file_id,
                                 !.meeting_transcript_id = req.meeting_transcript_id,
                                 !.sap_module = req.sap_module,
                                 !.analysis_type = req.analysis_type,
                                 !.additional_context = req.additional_context,
                                 !.status = PROCESSING,
                                 !.current_stage = "Inicializando analise",
                                 !.progress_percentage = 5],
                      <<5>>)

\* A business-process stage that ends on a value of its own.
AnalyzeBusinessProcessesOffValue(st, out) ==
    LET s1 == [st EXCEPT !.current_stage = "Analisando processos de negocio",
                         !.progress_percentage = 20]
    IN  IF out.raises
        THEN Raised(stage_except(s1, "Erro na analise de processos", out.cause),
                    out.cause, <<20>>)
        ELSE Returned([s1 EXCEPT !.process_analysis_result = <<_extract_crew_output(out)>>,
                                 !.progress_percentage = 30],
                      <<20, 30>>)

\* @listen(initialize_analysis) analyze_business_processes
analyze_business_processes(st, out) ==
    LET s1 == [st EXCEPT !.current_stage = "Analisando processos de negocio",
                         !.progress_percentage = 20]
    IN  IF out.raises
        THEN Raised(stage_except(s1, "Erro na analise de processos", out.cause),
                    out.cause, <<20>>)
        ELSE Returned([s1 EXCEPT !.process_analysis_result = <<_extract_crew_output(out)>>,
                                 !.progress_percentage = 35],
                      <<20, 35>>)

\* @listen(analyze_business_processes) analyze_requirements
analyze_requirements(st, out) ==
    IF "requirements_file_id" \notin DOMAIN st
    THEN \* line 178 reads self.state.requirements_file_id
         Raised(stage_except(st, "Erro na analise de requisitos", "AttributeError"),
                "AttributeError", <<>>)
    ELSE IF st.requirements_file_id \in {"None", ""}
    THEN Returned(st, <<>>)
    ELSE LET s1 == [st EXCEPT !.current_stage = "Analisando requisitos de negocio",
                              !.progress_percentage = 50]
         IN  IF out.raises
             THEN Raised(stage_except(s1, "Erro na analise de requisitos", out.cause),
                         out.cause, <<50>>)
             ELSE Returned([s1 EXCEPT
                                !.requirements_analysis_result = <<_extract_crew_output(out)>>,
                                !.progress_percentage = 60],
                           <<50, 60>>)

\* @listen(analyze_requirements) perform_gap_analysis
perform_gap_analysis(st, out) ==
    LET s1 == [st EXCEPT !.current_stage = "Realizando analise de gaps",
                         !.progress_percentage = 70]
    IN  IF out.raises
        THEN Raised(stage_except(s1, "Erro na analise de gaps", out.cause),
                    out.cause, <<70>>)
        ELSE Returned([s1 EXCEPT !.gap_analysis_result = <<_extract_crew_output(out)>>,
                                 !.progress_percentage = 80],
                      <<70, 80>>)

\* A variant that announces the stage before it looks for the transcript id.
AnalyzeMeetingTranscriptEager(st, out) ==
    LET s1 == [st EXCEPT !.current_stage = "Analisando transcricao da reuniao",
                         !.progress_percentage = 85]
    IN  IF st.meeting_transcript_id \in {"None", ""}
        THEN Returned(s1, <<85>>)
        ELSE IF out.raises
        THEN Raised(stage_except(s1, "Erro na analise da reuniao", out.cause),
                    out.cause, <<85>>)
        ELSE Returned([s1 EXCEPT !.meeting_analysis_result = <<_extract_crew_output(out)>>,
                                 !.progress_percentage = 90],
                      <<85, 90>>)

\* @listen(perform_gap_analysis) analyze_meeting_transcript
analyze_meeting_transcript(st, out) ==
    IF st.meeting_transcript_id \in {"None", ""}
    THEN Returned(st, <<>>)
    ELSE LET s1 == [st EXCEPT !.current_stage = "Analisando transcricao da reuniao",
                              !.progress_percentage = 85]
         IN  IF out.raises
             THEN Raised(stage_except(s1, "Erro na analise da reuniao", out.cause),
                         out.cause, <<85>>)
             ELSE Returned([s1 EXCEPT
                                !.meeting_analysis_result = <<_extract_crew_output(out)>>,
                                !.progress_percentage = 90],
                           <<85, 90>>)

\* The context generate_final_report hands to the report crew, lines 347-355: a
\* dict with one key per stage, whose value is the stage's output or None (<<>>).
report_inputs(st) ==
    [analysis_id |-> st.analysis_id,
     sap_module |-> st.sap_module,
     analysis_type |-> st.analysis_type,
     process_analysis |-> st.process_analysis_result,
     requirements_analysis |-> st.requirements_analysis_result,
     gap_analysis |-> st.gap_analysis_result,
     meeting_analysis |-> st.meeting_analysis_result]

\* @listen(analyze_meeting_transcript) generate_final_report; report is the local
\* final_report, <<>> while it is unassigned; available tells whether Firestore
\* can take a write when line 373 is reached; save is the call made there.
generate_final_report(st, out, available) ==
    LET s1 == [st EXCEPT !.current_stage = "Gerando relatorio final",
                         !.progress_percentage = 95]
        rep == _extract_crew_output(out)
        res == _create_structured_result(s1, rep)
        s2 == [s1 EXCEPT !.final_result = <<res.value>>,
                         !.status = COMPLETED,
                         !.progress_percentage = 100,
                         !.current_stage = "Analise concluida"]
        sav == save_analysis_result_call(s2.analysis_id, res.value, available)
        call == [save |-> <<[analysis_id |-> s2.analysis_id,
                             available |-> available,
                             stored |-> sav.stored]>>]
        ctx == [inputs |-> <<report_inputs(s1)>>]
    IN  IF out.raises
        THEN Raised(stage_except(s1, "Erro na geracao do relatorio", out.cause),
                    out.cause, <<95>>) @@ [report |-> <<>>] @@ ctx
        ELSE IF res.raises
        THEN Raised(stage_except(s1, "Erro na geracao do relatorio", res.exc),
                    res.exc, <<95>>) @@ [report |-> <<rep>>] @@ ctx
        ELSE IF sav.raises
        THEN Raised(stage_except(s2, "Erro na geracao do relatorio", sav.exc),
                    sav.exc, <<95, 100>>) @@ [report |-> <<rep>>] @@ call @@ ctx
        ELSE Returned(s2, <<95, 100>>) @@ [report |-> <<rep>>] @@ call @@ ctx

----------------------------------------------------------------------------
(* SAPAnalysisFlow: the method chain the @start/@listen decorators declare *)

Methods ==
    <<"initialize_analysis", "analyze_business_processes", "analyze_requirements",
      "perform_gap_analysis", "analyze_meeting_transcript", "generate_final_report">>

MethodSet == {Methods[i] : i \in 1..Len(Methods)}

\* A chain in which the report listens to the gap analysis instead of the meeting
\* analysis.
ListenerSkipsMeeting(m) ==
    CASE m = "initialize_analysis" -> "analyze_business_processes"
      [] m = "analyze_business_processes" -> "analyze_requirements"
      [] m = "analyze_requirements" -> "perform_gap_analysis"
      [] m = "perform_gap_analysis" -> "generate_final_report"
      [] m = "analyze_meeting_transcript" -> "generate_final_report"
      [] m = "generate_final_report" -> "done"

\* The method that @listen(m) decorates: it runs when m has returned.
Listener(m) ==
    CASE m = "initialize_analysis" -> "analyze_business_processes"
      [] m = "analyze_business_processes" -> "analyze_requirements"
      [] m = "analyze_requirements" -> "perform_gap_analysis"
      [] m = "perform_gap_analysis" -> "analyze_meeting_transcript"
      [] m = "analyze_meeting_transcript" -> "generate_final_report"
      [] m = "generate_final_report" -> "done"

\* The value uuid.uuid4() returns in initialize_analysis, and the id the state was
\* constructed with.
NewUuid == "uuid-1"

ConstructedId == "id-0"

\* A driver that runs a method again after it raised.
AdvanceRetries(m, r) ==
    /\ state' = r.st
    /\ executed' = Append(executed, m)
    /\ progress_log' = progress_log \o r.writes
    /\ pc' = IF r.raises /\ raised # <<>> THEN "failed"
             ELSE IF r.raises THEN m
             ELSE Listener(m)
    /\ raised' = IF r.raises THEN <<r.exc>> ELSE raised
    /\ final_report' = IF "report" \in DOMAIN r THEN r.report ELSE final_report
    /\ save_calls' = IF "save" \in DOMAIN r THEN save_calls \o r.save ELSE save_calls
    /\ inputs' = IF "inputs" \in DOMAIN r THEN r.inputs ELSE inputs
    /\ UNCHANGED <<request, entry, serviceVars>>

\* One method run by the driver: r is what the method did.  A method that raises
\* ends the flow (the exception leaves kickoff), a method that returns hands over
\* to its listener.
Advance(m, r) ==
    /\ state' = r.st
    /\ executed' = Append(executed, m)
    /\ progress_log' = progress_log \o r.writes
    /\ pc' = IF r.raises THEN "failed" ELSE Listener(m)
    /\ raised' = IF r.raises THEN <<r.exc>> ELSE raised
    /\ final_report' = IF "report" \in DOMAIN r THEN r.report ELSE final_report
    /\ save_calls' = IF "save" \in DOMAIN r THEN save_calls \o r.save ELSE save_calls
    /\ inputs' = IF "inputs" \in DOMAIN r THEN r.inputs ELSE inputs
    /\ analysis_results' =
            IF "save" \in DOMAIN r /\ r.save[1].stored
            THEN (r.st.analysis_id :> r.st.final_result[1]) @@ analysis_results
            ELSE analysis_results
    /\ UNCHANGED <<request, entry, analysis_status_store, task, response>>

InitializeAnalysis ==
    /\ pc = "initialize_analysis"
    /\ Advance("initialize_analysis", initialize_analysis(state, request, NewUuid))

AnalyzeBusinessProcesses ==
    /\ pc = "analyze_business_processes"
    /\ \E out \in CrewOutcomes :
        Advance("analyze_business_processes", analyze_business_processes(state, out))

AnalyzeRequirements ==
    /\ pc = "analyze_requirements"
    /\ \E out \in CrewOutcomes :
        Advance("analyze_requirements", analyze_requirements(state, out))

PerformGapAnalysis ==
    /\ pc = "perform_gap_analysis"
    /\ \E out \in CrewOutcomes :
        Advance("perform_gap_analysis", perform_gap_analysis(state, out))

AnalyzeMeetingTranscript ==
    /\ pc = "analyze_meeting_transcript"
    /\ \E out \in CrewOutcomes :
        Advance("analyze_meeting_transcript", analyze_meeting_transcript(state, out))

GenerateFinalReport ==
    /\ pc = "generate_final_report"
    /\ \E out \in CrewOutcomes, available \in BOOLEAN :
        Advance("generate_final_report",
                generate_final_report(state, out, available))

FlowNext ==
    \/ InitializeAnalysis
    \/ AnalyzeBusinessProcesses
    \/ AnalyzeRequirements
    \/ PerformGapAnalysis
    \/ AnalyzeMeetingTranscript
    \/ GenerateFinalReport

\* A flow object on a freshly constructed state.  kickoff enters the chain at the
\* @start method; the other entries drive the chain from one of the listeners, the
\* way each method can be invoked on its own.
FlowInit ==
    /\ request \in ValidRequests
    /\ entry \in MethodSet
    /\ pc = entry
    /\ state = SAPAnalysisState(ConstructedId, request)
    /\ executed = <<>>
    /\ progress_log = <<>>
    /\ final_report = <<>>
    /\ raised = <<>>
    /\ save_calls = <<>>
    /\ inputs = <<>>

----------------------------------------------------------------------------
(* analysis_service.py: AnalysisService and process_analysis_task.  A      *)
(* snapshot of the status store is a dict; {**old, k: v} is New @@ old.    *)

\* The ids uuid.uuid4() hands out in start_analysis: the n-th call returns n.
AnalysisIds == 1..MaxRuns

\* The requests the routes receive.
ServiceRequests ==
    {r \in AnalysisRequests :
        r.additional_context = "None" /\ r.meeting_transcript_id = "None"}

Respond(r) == response' = r

\* A start route without the check of presentation_id.
StartAnalysisUnchecked(ids) ==
    \E req \in ServiceRequests :
        LET id == Cardinality(DOMAIN analysis_status_store) + 1
        IN  /\ id \in ids
            /\ analysis_status_store' = analysis_status_store @@
                   (id :> [status |-> PENDING,
                           progress_percentage |-> 0,
                           current_stage |-> "Aguardando inicio do processamento",
                           created_at |-> "t",
                           request |-> req])
            /\ task' = task @@ (id :> "queued")
            /\ Respond([op |-> "start", code |-> 200, analysis_id |-> id,
                        status |-> PENDING, progress_percentage |-> 0])
            /\ UNCHANGED <<analysis_results, flowVars>>

\* A start that hands the id back without keeping an entry for it.
StartAnalysisNoEntry(ids) ==
    \E req \in ServiceRequests :
        IF req.presentation_id = ""
        THEN /\ Respond([op |-> "start", code |-> 400])
             /\ UNCHANGED <<analysis_status_store, analysis_results, task, flowVars>>
        ELSE LET id == Cardinality(DOMAIN task) + 1
             IN  /\ id \in ids
                 /\ task' = task @@ (id :> "unsent")
                 /\ Respond([op |-> "start", code |-> 200, analysis_id |-> id,
                             status |-> PENDING, progress_percentage |-> 0])
                 /\ UNCHANGED <<analysis_status_store, analysis_results, flowVars>>

\* POST /analysis/start (routes.py start_analysis, AnalysisService.start_analysis)
\* with ids the values uuid.uuid4() can still return.
StartAnalysisIn(ids) ==
    \E req \in ServiceRequests :
        IF req.presentation_id = ""
        THEN /\ Respond([op |-> "start", code |-> 400])
             /\ UNCHANGED <<analysis_status_store, analysis_results, task, flowVars>>
        ELSE LET id == Cardinality(DOMAIN analysis_status_store) + 1
             IN  /\ id \in ids
                 /\ analysis_status_store' = analysis_status_store @@
                        (id :> [status |-> PENDING,
                                progress_percentage |-> 0,
                                current_stage |-> "Aguardando inicio do processamento",
                                created_at |-> "t",
                                request |-> req])
                 /\ task' = task @@ (id :> "queued")
                 /\ Respond([op |-> "start", code |-> 200, analysis_id |-> id,
                             status |-> PENDING, progress_percentage |-> 0])
                 /\ UNCHANGED <<analysis_results, flowVars>>

StartAnalysis == StartAnalysisIn(AnalysisIds)

\* process_analysis_task, lines 171-182: the snapshot is set to processing.
TaskBegin(id) ==
    /\ task[id] = "queued"
    /\ analysis_status_store' = [analysis_status_store EXCEPT ![id] =
            [status |-> PROCESSING,
             current_stage |-> "Inicializando processamento",
             progress_percentage |-> 5] @@ @]
    /\ task' = [task EXCEPT ![id] = "constructing"]
    /\ UNCHANGED <<analysis_results, response, flowVars>>

\* An except block that marks the snapshot as failed and records no message.
TaskExceptNoMessage(snapshot, e) ==
    [status |-> ERROR, failed_at |-> "t"] @@ snapshot

\* The outer except block, lines 263-275.
task_except(snapshot, e) ==
    [status |-> ERROR, error_message |-> <<e>>, failed_at |-> "t"] @@ snapshot

\* process_analysis_task, lines 184-188: the request and the flow object are built.
\* SAPAnalysisFlow() builds the five crews and their LLM clients, which can fail.
TaskConstruct(id) ==
    /\ task[id] = "constructing"
    /\ \E ok \in BOOLEAN :
        IF ok
        THEN /\ task' = [task EXCEPT ![id] = "p5"]
             /\ UNCHANGED analysis_status_store
        ELSE /\ task' = [task EXCEPT ![id] = "failed"]
             /\ analysis_status_store' = [analysis_status_store EXCEPT ![id] =
                    task_except(@, "ConstructionError")]
    /\ UNCHANGED <<analysis_results, response, flowVars>>

\* Calls of update_progress whose third value is below the second.
ProgressStepsUnordered ==
    <<[at |-> "p5", stage |-> "Analisando processos de negocio", pct |-> 25, to |-> "p25"],
      [at |-> "p25", stage |-> "Analisando requisitos", pct |-> 75, to |-> "p50"],
      [at |-> "p50", stage |-> "Realizando analise de gaps", pct |-> 50, to |-> "p75"],
      [at |-> "p75", stage |-> "Gerando relatorio final", pct |-> 95, to |-> "p95"]>>

\* The calls of update_progress, lines 203-215, in their order.
ProgressSteps ==
    <<[at |-> "p5", stage |-> "Analisando processos de negocio", pct |-> 25, to |-> "p25"],
      [at |-> "p25", stage |-> "Analisando requisitos", pct |-> 50, to |-> "p50"],
      [at |-> "p50", stage |-> "Realizando analise de gaps", pct |-> 75, to |-> "p75"],
      [at |-> "p75", stage |-> "Gerando relatorio final", pct |-> 95, to |-> "p95"]>>

\* update_progress(stage, percentage), lines 191-196
update_progress(snapshot, stage, percentage) ==
    [current_stage |-> stage,
     progress_percentage |-> percentage,
     status |-> PROCESSING] @@ snapshot

\* An update_progress that writes the stage and the percentage to every entry of
\* the store.
TaskUpdateProgressAll(id) ==
    \E i \in 1..Len(ProgressSteps) :
        /\ task[id] = ProgressSteps[i].at
        /\ analysis_status_store' =
                [k \in DOMAIN analysis_status_store |->
                    update_progress(analysis_status_store[k],
                                    ProgressSteps[i].stage, ProgressSteps[i].pct)]
        /\ task' = [task EXCEPT ![id] = ProgressSteps[i].to]
        /\ UNCHANGED <<analysis_results, response, flowVars>>

TaskUpdateProgress(id) ==
    \E i \in 1..Len(ProgressSteps) :
        /\ task[id] = ProgressSteps[i].at
        /\ analysis_status_store' = [analysis_status_store EXCEPT ![id] =
                update_progress(@, ProgressSteps[i].stage, ProgressSteps[i].pct)]
        /\ task' = [task EXCEPT ![id] = ProgressSteps[i].to]
        /\ UNCHANGED <<analysis_results, response, flowVars>>

\* The inner except block, lines 253-261: the snapshot is set to error with the
\* prefixed message; the exception is raised again and reaches the outer block.
flow_except(snapshot, flow_error) ==
    [status |-> ERROR,
     error_message |-> <<"Erro na execucao do flow", flow_error>>,
     failed_at |-> "t"] @@ snapshot

\* The exception that can surface inside the inner try block: the block waits in
\* time.sleep (lines 206-215), where an exception delivered to the task (the
\* worker's soft time limit) is raised.
Interruption == "SoftTimeLimitExceeded"

\* The waits of the inner try block, one after each update_progress.
Waits == {ProgressSteps[i].to : i \in 1..Len(ProgressSteps)}

\* process_analysis_task, lines 253-261: an exception inside the inner try block.
TaskFlowFault(id) ==
    /\ task[id] \in Waits
    /\ analysis_status_store' = [analysis_status_store EXCEPT ![id] =
            flow_except(@, Interruption)]
    /\ task' = [task EXCEPT ![id] = "raising"]
    /\ UNCHANGED <<analysis_results, response, flowVars>>

\* process_analysis_task, lines 263-275: the exception the inner block raised
\* again is caught by the outer block.
TaskReraise(id) ==
    /\ task[id] = "raising"
    /\ analysis_status_store' = [analysis_status_store EXCEPT ![id] =
            task_except(@, Interruption)]
    /\ task' = [task EXCEPT ![id] = "failed"]
    /\ UNCHANGED <<analysis_results, response, flowVars>>

\* The simulated result, lines 218-236.
MockResult(id) ==
    [analysis_id |-> id,
     presentation_analysis |-> <<>>,
     requirements_analysis |-> <<>>,
     overall_summary |-> <<"Analise concluida para modulo">>,
     total_requirements |-> 5,
     gaps_identified |-> 2,
     high_impact_gaps |-> 1,
     recommendations |-> <<"Implementar processo de aprovacao automatica",
                           "Configurar validacoes adicionais">>,
     next_steps |-> <<"Revisar gaps de alta prioridade",
                      "Planejar implementacao das melhorias">>]

\* A final snapshot written without the result.
TaskCompleteNoResult(id) ==
    /\ task[id] = "p95"
    /\ analysis_status_store' = [analysis_status_store EXCEPT ![id] =
            [status |-> COMPLETED,
             current_stage |-> "Analise concluida",
             progress_percentage |-> 100,
             completed_at |-> "t"] @@ @]
    /\ task' = [task EXCEPT ![id] = "finished"]
    /\ UNCHANGED <<analysis_results, response, flowVars>>

\* A final write that leaves the status at processing.
TaskCompleteKeepsProcessing(id) ==
    /\ task[id] = "p95"
    /\ analysis_status_store' = [analysis_status_store EXCEPT ![id] =
            [status |-> PROCESSING,
             current_stage |-> "Analise concluida",
             progress_percentage |-> 100,
             completed_at |-> "t",
             result |-> MockResult(id)] @@ @]
    /\ task' = [task EXCEPT ![id] = "finished"]
    /\ UNCHANGED <<analysis_results, response, flowVars>>

\* process_analysis_task, lines 217-251: the final snapshot.  The save to Firestore
\* is commented out (line 239).
TaskComplete(id) ==
    /\ task[id] = "p95"
    /\ analysis_status_store' = [analysis_status_store EXCEPT ![id] =
            [status |-> COMPLETED,
             current_stage |-> "Analise concluida",
             progress_percentage |-> 100,
             completed_at |-> "t",
             result |-> MockResult(id)] @@ @]
    /\ task' = [task EXCEPT ![id] = "finished"]
    /\ UNCHANGED <<analysis_results, response, flowVars>>

\* AnalysisService.get_analysis_status, lines 91-107: <<>> is None.
get_analysis_status(id) ==
    IF id \in DOMAIN analysis_status_store
    THEN <<analysis_status_store[id]>>
    ELSE IF id \in DOMAIN analysis_results
    THEN <<[status |-> COMPLETED,
            progress_percentage |-> 100,
            current_stage |-> "Analise concluida",
            has_result |-> TRUE,
            result |-> analysis_results[id]]>>
    ELSE <<>>

\* The ids a client asks about: the ones handed out and one that never was.
QueryIds == 1..(MaxRuns + 1)

\* GET /analysis/{analysis_id}/status (routes.py, lines 83-113): the response.
route_get_analysis_status(id) ==
    LET found == get_analysis_status(id)
    IN  IF found = <<>>
        THEN [op |-> "status", id |-> id, code |-> 404]
        ELSE IF "created_at" \notin DOMAIN found[1]
        THEN \* status_data["created_at"]: KeyError, answered as 500
             [op |-> "status", id |-> id, code |-> 500]
        ELSE [op |-> "status", id |-> id, code |-> 200,
              status |-> found[1].status,
              progress_percentage |->
                  DictGet(found[1], "progress_percentage", 0),
              current_stage |-> DictGet(found[1], "current_stage", "None"),
              error_message |-> DictGet(found[1], "error_message", <<>>)]

GetAnalysisStatus ==
    \E id \in QueryIds :
        /\ Respond(route_get_analysis_status(id))
        /\ UNCHANGED <<analysis_status_store, analysis_results, task, flowVars>>

\* POST /upload/analyze-with-file (upload_routes.py, lines 132-148), once
\* flow.kickoff(analysis_request) has ended: the response.  An exception that
\* leaves kickoff is answered as 500, a kickoff that returns is answered with the
\* id, status and progress of the flow's state.
route_analyze_with_uploaded_file ==
    IF raised # <<>>
    THEN [op |-> "upload", code |-> 500]
    ELSE [op |-> "upload", code |-> 200,
          analysis_id |-> state.analysis_id,
          status |-> state.status,
          progress_percentage |-> state.progress_percentage]

\* AnalysisService.get_analysis_result, lines 127-129: the Firestore document,
\* <<>> is None.
get_analysis_result(id) ==
    IF id \in DOMAIN analysis_results THEN <<analysis_results[id]>> ELSE <<>>

\* A result route that does not look at the status.
RouteResultNoStatusCheck(id) ==
    LET found == get_analysis_status(id)
        result == get_analysis_result(id)
    IN  IF found = <<>>
        THEN [op |-> "result", id |-> id, code |-> 404]
        ELSE IF result # <<>>
        THEN [op |-> "result", id |-> id, code |-> 200, result |-> result[1]]
        ELSE IF "result" \in DOMAIN found[1]
        THEN [op |-> "result", id |-> id, code |-> 200, result |-> found[1].result]
        ELSE [op |-> "result", id |-> id, code |-> 404]

\* A result route that only looks for the Firestore document.
RouteResultFirestoreOnly(id) ==
    LET found == get_analysis_status(id)
        result == get_analysis_result(id)
    IN  IF found = <<>>
        THEN [op |-> "result", id |-> id, code |-> 404]
        ELSE IF found[1].status # COMPLETED
        THEN [op |-> "result", id |-> id, code |-> 400]
        ELSE IF result # <<>>
        THEN [op |-> "result", id |-> id, code |-> 200, result |-> result[1]]
        ELSE [op |-> "result", id |-> id, code |-> 404]

\* GET /analysis/{analysis_id}/result (routes.py, lines 130-177): the response.
route_get_analysis_result(id) ==
    LET found == get_analysis_status(id)
        result == get_analysis_result(id)
    IN  IF found = <<>>
        THEN [op |-> "result", id |-> id, code |-> 404]
        ELSE IF found[1].status # COMPLETED
        THEN [op |-> "result", id |-> id, code |-> 400]
        ELSE IF result # <<>>
        THEN [op |-> "result", id |-> id, code |-> 200, result |-> result[1]]
        ELSE IF "result" \in DOMAIN found[1]
        THEN [op |-> "result", id |-> id, code |-> 200, result |-> found[1].result]
        ELSE [op |-> "result", id |-> id, code |-> 404]

GetAnalysisResult ==
    \E id \in QueryIds :
        /\ Respond(route_get_analysis_result(id))
        /\ UNCHANGED <<analysis_status_store, analysis_results, task, flowVars>>

\* A listing that keeps every snapshot, whatever its status.
RECURSIVE ActiveUpToAll(_)
ActiveUpToAll(n) ==
    IF n = 0 THEN <<>>
    ELSE Append(ActiveUpToAll(n - 1), [analysis_id |-> n] @@ analysis_status_store[n])

\* The snapshots of the store in insertion order up to id n, restricted to the
\* pending and processing ones, each with its analysis_id (lines 147-155).
RECURSIVE active_up_to(_)
active_up_to(n) ==
    IF n = 0 THEN <<>>
    ELSE IF analysis_status_store[n].status \in {PENDING, PROCESSING}
    THEN Append(active_up_to(n - 1), [analysis_id |-> n] @@ analysis_status_store[n])
    ELSE active_up_to(n - 1)

\* AnalysisService.list_active_analyses, lines 146-155
list_active_analyses == active_up_to(Cardinality(DOMAIN analysis_status_store))

\* GET /analysis/active (routes.py, lines 188-196)
ListActiveAnalyses ==
    /\ Respond([op |-> "active", code |-> 200, analyses |-> list_active_analyses])
    /\ UNCHANGED <<analysis_status_store, analysis_results, task, flowVars>>

\* A cancel route that does not look at the status.
RouteCancelNoFinishedCheck(id) ==
    LET found == get_analysis_status(id)
    IN  IF found = <<>>
        THEN [op |-> "cancel", id |-> id, code |-> 404]
        ELSE [op |-> "cancel", id |-> id, code |-> 200]

\* DELETE /analysis/{analysis_id} (routes.py, lines 220-259): the response.  The
\* revoke of the Celery task is a TODO (lines 238-239); the route answers
\* "cancelada com sucesso".
route_cancel_analysis(id) ==
    LET found == get_analysis_status(id)
    IN  IF found = <<>>
        THEN [op |-> "cancel", id |-> id, code |-> 404]
        ELSE IF found[1].status \in {COMPLETED, ERROR}
        THEN [op |-> "cancel", id |-> id, code |-> 400]
        ELSE [op |-> "cancel", id |-> id, code |-> 200]

CancelAnalysis ==
    \E id \in QueryIds :
        /\ Respond(route_cancel_analysis(id))
        /\ UNCHANGED <<analysis_status_store, analysis_results, task, flowVars>>

Next ==
    \/ StartAnalysis
    \/ \E id \in DOMAIN task : TaskBegin(id)
    \/ \E id \in DOMAIN task : TaskConstruct(id)
    \/ \E id \in DOMAIN task : TaskUpdateProgress(id)
    \/ \E id \in DOMAIN task : TaskComplete(id)
    \/ \E id \in DOMAIN task : TaskFlowFault(id)
    \/ \E id \in DOMAIN task : TaskReraise(id)
    \/ GetAnalysisStatus
    \/ GetAnalysisResult
    \/ ListActiveAnalyses
    \/ CancelAnalysis

\* The background tasks of several analyses running side by side.
RunsNext ==
    \/ StartAnalysisIn(1..MaxConcurrent)
    \/ \E id \in DOMAIN task : TaskBegin(id)
    \/ \E id \in DOMAIN task : TaskConstruct(id)
    \/ \E id \in DOMAIN task : TaskUpdateProgress(id)
    \/ \E id \in DOMAIN task : TaskComplete(id)
    \/ \E id \in DOMAIN task : TaskFlowFault(id)
    \/ \E id \in DOMAIN task : TaskReraise(id)

\* The task runner hands process_analysis_task(analysis_id, request_data) to a
\* worker once more after an execution of it has ended (a broker that delivers at
\* least once): the task body runs again from its first line.
TaskRedeliver(id) ==
    /\ task[id] \in {"finished", "failed"}
    /\ task' = [task EXCEPT ![id] = "queued"]
    /\ UNCHANGED <<analysis_status_store, analysis_results, response, flowVars>>

\* The background tasks under a runner that may deliver a task again.
RedeliveryNext ==
    \/ StartAnalysisIn(AnalysisIds)
    \/ \E id \in DOMAIN task : TaskBegin(id)
    \/ \E id \in DOMAIN task : TaskConstruct(id)
    \/ \E id \in DOMAIN task : TaskUpdateProgress(id)
    \/ \E id \in DOMAIN task : TaskComplete(id)
    \/ \E id \in DOMAIN task : TaskFlowFault(id)
    \/ \E id \in DOMAIN task : TaskReraise(id)
    \/ \E id \in DOMAIN task : TaskRedeliver(id)

----------------------------------------------------------------------------

ServiceInit ==
    /\ analysis_status_store = <<>>
    /\ analysis_results = <<>>
    /\ task = <<>>
    /\ response = [op |-> "none"]

\* No flow object is running: the service does not kick one off (line 201).
FlowIdle ==
    /\ request = [presentation_id |-> "P1",
                  requirements_file_info |-> <<>>,
                  meeting_transcript_id |-> "None",
                  sap_module |-> "FI",
                  analysis_type |-> "full_analysis",
                  additional_context |-> "None"]
    /\ entry = "none"
    /\ pc = "none"
    /\ state = SAPAnalysisState(ConstructedId, request)
    /\ executed = <<>>
    /\ progress_log = <<>>
    /\ final_report = <<>>
    /\ raised = <<>>
    /\ save_calls = <<>>
    /\ inputs = <<>>

\* What Firestore's collection analysis_results holds when the process starts:
\* nothing, or the result of an analysis an earlier process completed.  The
\* collection outlives the process; the status store does not.
FirestoreAtStart == {<<>>, (MaxRuns + 1) :> MockResult(MaxRuns + 1)}

ServiceStart ==
    /\ analysis_status_store = <<>>
    /\ analysis_results \in FirestoreAtStart
    /\ task = <<>>
    /\ response = [op |-> "none"]

Init == FlowIdle /\ ServiceStart

\* The service: the routes and the background tasks.
Spec == Init /\ [][Next]_vars

FlowSpecInit == FlowInit /\ ServiceInit

RunsInit == FlowIdle /\ ServiceInit

\* The background tasks alone.
RunsSpec == RunsInit /\ [][RunsNext]_vars

\* The background tasks under at-least-once delivery.
RedeliverySpec == RunsInit /\ [][RedeliveryNext]_vars

\* One step of the execution of process_analysis_task for id.
TaskStep(id) ==
    /\ id \in DOMAIN task
    /\ \/ TaskBegin(id)
       \/ TaskConstruct(id)
       \/ TaskUpdateProgress(id)
       \/ TaskComplete(id)
       \/ TaskFlowFault(id)
       \/ TaskReraise(id)

\* The background tasks under a fair task runner: a task that was queued is
\* picked up, and every call the task body makes (the construction of the flow,
\* time.sleep) returns or raises, so an execution that can take a step takes one.
FairRunsSpec ==
    RunsInit /\ [][RunsNext]_vars /\ \A id \in 1..MaxConcurrent : WF_vars(TaskStep(id))

\* The flow, driven by kickoff.
FlowSpec == FlowSpecInit /\ [][FlowNext]_vars

\* The flow and the service share no state: process_analysis_task does not kick
\* the flow off (line 201) and the flow does not touch the status store, so
\* interleaving them adds no value of either one's variables.  A behaviour of
\* the system is a behaviour of the service (no flow object exists) or one of
\* the flow.
SystemInit == Init \/ FlowSpecInit

SystemNext == (pc = "none" /\ Next) \/ FlowNext

SystemSpec == SystemInit /\ [][SystemNext]_vars

----------------------------------------------------------------------------
(* Properties *)

Last(seq) == seq[Len(seq)]

IndexOf(m) == CHOOSE i \in 1..Len(Methods) : Methods[i] = m

Kickoff == entry = "initialize_analysis"

Finished == pc \in {"done", "failed"}

AnalyzerFault == raised = <<"ServiceError">>

AllowedStatusStep(a, b) ==
    \/ a = b
    \/ <<a, b>> \in {<<PENDING, PROCESSING>>, <<PROCESSING, COMPLETED>>,
                     <<PROCESSING, ERROR>>}

\* C1: the status of a run, in the flow state and in its status-store snapshot,
\* only moves pending -> processing -> completed or pending -> processing -> error,
\* and never leaves completed or error.
C1_StatusChain ==
    [][/\ Kickoff => AllowedStatusStep(state.status, state'.status)
       /\ \A id \in DOMAIN analysis_status_store :
            AllowedStatusStep(analysis_status_store[id].status,
                              analysis_status_store'[id].status)]_vars

\* C2: the methods of a run execute in the order of the chain, each at most once,
\* each after its predecessor returned, and nothing runs once a method has raised.
C2_FixedStageOrder ==
    /\ IndexOf(entry) + Len(executed) - 1 <= Len(Methods)
    /\ \A i \in 1..Len(executed) : executed[i] = Methods[IndexOf(entry) + i - 1]
    /\ pc \in MethodSet =>
        /\ raised = <<>>
        /\ IndexOf(entry) + Len(executed) <= Len(Methods)
        /\ pc = Methods[IndexOf(entry) + Len(executed)]

C2_Witness ==
    /\ entry = "perform_gap_analysis"
    /\ pc = "done"
    /\ executed = <<"perform_gap_analysis", "analyze_meeting_transcript",
                    "generate_final_report">>

\* the text each stage puts in front of the cause
StageLabel(m) ==
    CASE m = "initialize_analysis" -> "Erro na inicializacao"
      [] m = "analyze_business_processes" -> "Erro na analise de processos"
      [] m = "analyze_requirements" -> "Erro na analise de requisitos"
      [] m = "perform_gap_analysis" -> "Erro na analise de gaps"
      [] m = "analyze_meeting_transcript" -> "Erro na analise da reuniao"
      [] m = "generate_final_report" -> "Erro na geracao do relatorio"

\* C3: when a stage raises, the status is error from that step on, error_message
\* names the failing stage and the cause, and no later stage runs.
C3_FaultStopsRun ==
    raised # <<>> =>
        /\ state.status = ERROR
        /\ state.error_message = <<StageLabel(Last(executed)), raised[1]>>
        /\ pc = "failed"

C3_Witness ==
    /\ AnalyzerFault
    /\ executed # <<>>
    /\ Last(executed) = "perform_gap_analysis"
    /\ state.status = ERROR

\* C4: for every valid request Initialize succeeds: it assigns the analysis id,
\* copies the request inputs and leaves status processing and progress 5.
C4_InitializeSucceeds ==
    (Kickoff /\ executed = <<"initialize_analysis">>) =>
        /\ raised = <<>>
        /\ state.analysis_id = NewUuid
        /\ state.presentation_id = request.presentation_id
        /\ state.meeting_transcript_id = request.meeting_transcript_id
        /\ state.sap_module = request.sap_module
        /\ state.analysis_type = request.analysis_type
        /\ state.additional_context = request.additional_context
        /\ state.status = PROCESSING
        /\ state.progress_percentage = 5

\* C5: a run without requirements reference and without meeting transcript id whose
\* analyzer calls all succeed ends completed at progress 100, with the outputs of
\* the process analysis, the gap analysis and the report and no others.
C5_MinimalRunCompletes ==
    (/\ Kickoff
     /\ Finished
     /\ ~AnalyzerFault
     /\ request.requirements_file_info = <<>>
     /\ request.meeting_transcript_id = "None") =>
        /\ state.status = COMPLETED
        /\ state.progress_percentage = 100
        /\ state.process_analysis_result # <<>>
        /\ state.gap_analysis_result # <<>>
        /\ final_report # <<>>
        /\ state.requirements_analysis_result = <<>>
        /\ state.meeting_analysis_result = <<>>

\* C6: a run with both optional references whose analyzer calls all succeed ends
\* completed with all five outputs, its progress having taken exactly the values
\* 5, 35, 60, 80, 90, 95, 100 in that order.
C6_FullRunCheckpoints ==
    (/\ Kickoff
     /\ Finished
     /\ ~AnalyzerFault
     /\ request.requirements_file_info # <<>>
     /\ request.meeting_transcript_id # "None") =>
        /\ state.status = COMPLETED
        /\ state.process_analysis_result # <<>>
        /\ state.requirements_analysis_result # <<>>
        /\ state.gap_analysis_result # <<>>
        /\ state.meeting_analysis_result # <<>>
        /\ final_report # <<>>
        /\ progress_log = <<5, 35, 60, 80, 90, 95, 100>>

\* C7: without a requirements reference the requirements stage is a no-op: it does
\* not fail, changes nothing in the flow state and hands over to the gap analysis.
C7_RequirementsSkipIsNoOp ==
    [][(pc = "analyze_requirements" /\ request.requirements_file_info = <<>>) =>
        /\ state' = state
        /\ progress_log' = progress_log
        /\ raised' = raised
        /\ pc' = "perform_gap_analysis"]_vars

\* C8: without a meeting transcript id the meeting stage is a no-op: it does not
\* fail, changes nothing in the flow state and hands over to the report generation.
C8_MeetingSkipIsNoOp ==
    [][(pc = "analyze_meeting_transcript" /\ request.meeting_transcript_id = "None") =>
        /\ state' = state
        /\ progress_log' = progress_log
        /\ raised' = raised
        /\ pc' = "generate_final_report"]_vars

C8_Witness ==
    /\ request.meeting_transcript_id = "None"
    /\ executed # <<>>
    /\ Last(executed) = "analyze_meeting_transcript"
    /\ pc = "generate_final_report"

\* C9: once the report analyzer has returned, building the structured result
\* cannot fail the run: the construction fails, the fallback result (the report's
\* raw text as summary, the fixed recommendation and next step) is returned, and
\* the run is completed.
C9_ResultConstructionNeverFails ==
    (executed # <<>> /\ Last(executed) = "generate_final_report"
                     /\ final_report # <<>>) =>
        /\ raised = <<>>
        /\ state.status = COMPLETED
        /\ state.final_result # <<>>
        /\ state.final_result[1].analysis_id = state.analysis_id
        /\ state.final_result[1].overall_summary = Truncate(final_report[1].raw_output)
        /\ state.final_result[1].recommendations = <<"Revisar resultado da analise">>
        /\ state.final_result[1].next_steps = <<"Implementar melhorias identificadas">>

C9_Witness ==
    /\ pc = "done"
    /\ final_report # <<>>
    /\ final_report[1].raw_output = <<>>
    /\ state.status = COMPLETED
    /\ state.final_result # <<>>

\* C10: a run in error has no final_result, whichever stage raised; final_result
\* is set at most once, in the step that moves the status to completed.
C10_ErrorHasNoResult ==
    /\ [](state.status = ERROR => state.final_result = <<>>)
    /\ [][state'.final_result # state.final_result =>
            /\ state.final_result = <<>>
            /\ state.status # COMPLETED
            /\ state'.status = COMPLETED]_vars

C10_Witness ==
    /\ state.status = ERROR
    /\ executed # <<>>
    /\ Last(executed) = "generate_final_report"
    /\ progress_log # <<>>
    /\ Last(progress_log) = 95

\* C11: a run whose status is completed has a final result: final_result is set in
\* the flow state, and a status-store snapshot with status completed (the one the
\* service answers with, kept in memory or rebuilt from Firestore) carries a
\* result.
C11_CompletedHasResult ==
    /\ state.status = COMPLETED => state.final_result # <<>>
    /\ \A id \in QueryIds :
          LET found == get_analysis_status(id)
          IN  (found # <<>> /\ found[1].status = COMPLETED) =>
                  "result" \in DOMAIN found[1]

C11_Witness ==
    \E id \in DOMAIN analysis_status_store :
        /\ task[id] = "finished"
        /\ analysis_status_store[id].status = COMPLETED
        /\ analysis_status_store[id].result.analysis_id = id

C13_MessageWrittenOnce ==
    [][/\ state'.error_message # state.error_message =>
            /\ state.error_message = <<>>
            /\ state.status # ERROR
            /\ state'.status = ERROR
       /\ \A id \in DOMAIN analysis_status_store :
            LET old == DictGet(analysis_status_store[id], "error_message", <<>>)
                new == DictGet(analysis_status_store'[id], "error_message", <<>>)
            IN  new # old =>
                    /\ old = <<>>
                    /\ analysis_status_store[id].status # ERROR
                    /\ analysis_status_store'[id].status = ERROR]_vars

\* C14: progress_percentage is 100 exactly when the status is completed, in the
\* flow state and in every status-store snapshot; a run that ended in error does
\* not show 100.
C14_FullProgressIffCompleted ==
    /\ state.progress_percentage = 100 <=> state.status = COMPLETED
    /\ \A id \in DOMAIN analysis_status_store :
          analysis_status_store[id].progress_percentage = 100
              <=> analysis_status_store[id].status = COMPLETED

C14_Witness ==
    /\ state.status = ERROR
    /\ raised = <<"ServiceError">>
    /\ Last(executed) = "generate_final_report"
    /\ state.progress_percentage = 95
    /\ save_calls = <<>>

\* C15: progress_percentage never decreases from one step to the next and stays
\* within 0..100, in the flow state (also from one write to the next inside a
\* stage) and in every status-store snapshot, whatever the status, in particular
\* while it is processing.
C15_ProgressMonotone ==
    [][/\ state'.progress_percentage >= state.progress_percentage
       /\ state'.progress_percentage \in 0..100
       /\ \A i \in 1..Len(progress_log') :
            /\ progress_log'[i] \in 0..100
            /\ i > 1 => progress_log'[i] >= progress_log'[i - 1]
       /\ \A id \in DOMAIN analysis_status_store :
            /\ analysis_status_store'[id].progress_percentage
                   >= analysis_status_store[id].progress_percentage
            /\ analysis_status_store'[id].progress_percentage \in 0..100]_vars

C15_Witness ==
    \E id \in DOMAIN analysis_status_store :
        /\ analysis_status_store[id].status = PROCESSING
        /\ analysis_status_store[id].progress_percentage = 75
        /\ task[id] = "p75"

OutputSlots ==
    [process_analysis_result |-> "analyze_business_processes",
     requirements_analysis_result |-> "analyze_requirements",
     gap_analysis_result |-> "perform_gap_analysis",
     meeting_analysis_result |-> "analyze_meeting_transcript",
     final_result |-> "generate_final_report"]

\* C17: the stage outputs are append-only: a slot changes only in a step in which
\* its own stage runs and returns, it is empty before that step and filled after
\* it, so no slot is written twice, written by another stage, written by a stage
\* that raised, overwritten or removed.
C17_OutputsAppendOnly ==
    [][\A k \in DOMAIN OutputSlots :
          state'[k] # state[k] =>
              /\ state[k] = <<>>
              /\ state'[k] # <<>>
              /\ executed' = Append(executed, OutputSlots[k])
              /\ raised' = <<>>]_vars

C17_Witness ==
    /\ executed = <<"analyze_meeting_transcript", "generate_final_report">>
    /\ state.meeting_analysis_result # <<>>
    /\ pc = "failed"
    /\ state.final_result = <<>>

\* C18: the step in which a stage raises leaves the outputs of the earlier stages
\* as they were, and after it the run is not resumed: no method runs again and the
\* flow state, outputs included, stays as the failing stage left it.
C18_FaultKeepsOutputsNoResume ==
    [][/\ (raised = <<>> /\ raised' # <<>>) =>
            \A k \in DOMAIN OutputSlots : state'[k] = state[k]
       /\ raised # <<>> =>
            /\ executed' = executed
            /\ state' = state
            /\ pc' = "failed"]_vars

C18_Witness ==
    /\ executed = <<"analyze_business_processes", "analyze_requirements">>
    /\ raised # <<>>
    /\ pc = "failed"
    /\ state.process_analysis_result # <<>>
    /\ state.status = ERROR

\* C19: whenever a run is completed, in the flow state or in the status store,
\* its result is stored in the Firestore collection analysis_results under the
\* run's analysis_id.
C19_CompletedIsPersisted ==
    /\ state.status = COMPLETED => state.analysis_id \in DOMAIN analysis_results
    /\ \A id \in DOMAIN analysis_status_store :
          analysis_status_store[id].status = COMPLETED =>
              id \in DOMAIN analysis_results

\* C20: when Firestore cannot take the write at the moment the report stage
\* saves the final result, the run is in error with an error_message, and is not
\* completed.
C20_StoreFaultIsStageFault ==
    (\E i \in 1..Len(save_calls) : ~save_calls[i].available) =>
        /\ state.status = ERROR
        /\ state.error_message # <<>>

\* C21: after every stage of the flow the status store holds, under the run's
\* analysis_id, a snapshot with the status, progress and current stage of the
\* flow state.
C21_SnapshotFollowsFlow ==
    executed # <<>> =>
        /\ state.analysis_id \in DOMAIN analysis_status_store
        /\ LET snapshot == analysis_status_store[state.analysis_id]
           IN  /\ snapshot.status = state.status
               /\ snapshot.progress_percentage = state.progress_percentage
               /\ snapshot.current_stage = state.current_stage

\* C22: with several background tasks running side by side, a step changes the
\* store entry of at most one analysis, the one whose task took the step; no
\* entry is removed; and a write to an entry keeps the keys the entry already
\* had, with created_at and request as they were written at start.
C22_WritesStayInOwnEntry ==
    [][/\ DOMAIN analysis_status_store \subseteq DOMAIN analysis_status_store'
       /\ \A id \in DOMAIN analysis_status_store :
            /\ analysis_status_store'[id] # analysis_status_store[id] =>
                  /\ task'[id] # task[id]
                  /\ \A other \in DOMAIN analysis_status_store \ {id} :
                        /\ analysis_status_store'[other] = analysis_status_store[other]
                        /\ task'[other] = task[other]
            /\ DOMAIN analysis_status_store[id] \subseteq DOMAIN analysis_status_store'[id]
            /\ analysis_status_store'[id].created_at = analysis_status_store[id].created_at
            /\ analysis_status_store'[id].request = analysis_status_store[id].request]_vars

C22_Witness ==
    /\ DOMAIN analysis_status_store = {1, 2}
    /\ analysis_status_store[1].status = PROCESSING
    /\ analysis_status_store[1].progress_percentage = 75
    /\ analysis_status_store[2].status = PROCESSING
    /\ analysis_status_store[2].progress_percentage = 25

\* C23: a status query answers from the in-memory entry when there is one; when
\* there is none and Firestore holds a result for the id it answers with a
\* snapshot of status completed and progress 100; when neither has the id it
\* answers not-found.
C23_StatusSourceOrder ==
    \A id \in QueryIds :
        LET r == route_get_analysis_status(id)
        IN  IF id \in DOMAIN analysis_status_store
            THEN /\ r.code = 200
                 /\ r.status = analysis_status_store[id].status
                 /\ r.progress_percentage =
                        analysis_status_store[id].progress_percentage
            ELSE IF id \in DOMAIN analysis_results
            THEN /\ r.code = 200
                 /\ r.status = COMPLETED
                 /\ r.progress_percentage = 100
            ELSE r.code = 404

\* C24: every status query that was answered ended with a well-formed snapshot
\* (status, progress, current stage, error_message) or with not-found, never with
\* an internal error.
C24_StatusQueryNeverFails ==
    response.op = "status" =>
        \/ response.code = 404
        \/ /\ response.code = 200
           /\ response.status \in AnalysisStatus
           /\ response.progress_percentage \in 0..100
           /\ {"current_stage", "error_message"} \subseteq DOMAIN response

C26_ListActiveIsExact ==
    LET listed == list_active_analyses
    IN  /\ \A id \in DOMAIN analysis_status_store :
              analysis_status_store[id].status \in {PENDING, PROCESSING}
                  <=> \E i \in 1..Len(listed) : listed[i].analysis_id = id
        /\ \A i \in 1..Len(listed) :
              /\ listed[i].analysis_id \in DOMAIN analysis_status_store
              /\ listed[i] = [analysis_id |-> listed[i].analysis_id]
                                @@ analysis_status_store[listed[i].analysis_id]
              /\ \A j \in 1..Len(listed) :
                    listed[j].analysis_id = listed[i].analysis_id => j = i

C26_Witness ==
    /\ response.op = "active"
    /\ response.analyses = <<>>
    /\ analysis_status_store # <<>>
    /\ list_active_analyses = <<>>

\* C27: a cancel of a run whose status is processing is rejected: it never
\* answers success.
C27_CancelProcessingRejected ==
    \A id \in DOMAIN analysis_status_store :
        analysis_status_store[id].status = PROCESSING =>
            route_cancel_analysis(id).code # 200

C30_ContextOmitsAbsentStages ==
    inputs # <<>> =>
        LET slots == [process_analysis |-> "process_analysis_result",
                      requirements_analysis |-> "requirements_analysis_result",
                      gap_analysis |-> "gap_analysis_result",
                      meeting_analysis |-> "meeting_analysis_result"]
        IN  \A k \in DOMAIN slots :
                /\ k \in DOMAIN inputs[1] <=> state[slots[k]] # <<>>
                /\ k \in DOMAIN inputs[1] => inputs[1][k] # <<>>

\* C31: in every AnalysisResult a run produces (the final_result of a flow and
\* the result a task writes into its snapshot) high_impact_gaps is at most
\* gaps_identified, whatever raw text the gap-analysis stage returned.
C31_HighImpactWithinGaps ==
    /\ state.final_result # <<>> =>
            state.final_result[1].high_impact_gaps
                <= state.final_result[1].gaps_identified
    /\ \A id \in DOMAIN analysis_status_store :
            "result" \in DOMAIN analysis_status_store[id] =>
                analysis_status_store[id].result.high_impact_gaps
                    <= analysis_status_store[id].result.gaps_identified

C31_Witness ==
    /\ pc = "done"
    /\ state.final_result # <<>>
    /\ state.gap_analysis_result # <<>>
    /\ CountKeywords(state.gap_analysis_result[1].raw_output, {"critico"}) = MaxRawLen
    /\ MaxRawLen > 1

\* C32: in every AnalysisResult a run produces, recommendations and next_steps
\* are non-empty lists, whichever stages ran and whatever the report text is.
C32_ListsNonEmpty ==
    /\ state.final_result # <<>> =>
            /\ Len(state.final_result[1].recommendations) > 0
            /\ Len(state.final_result[1].next_steps) > 0
    /\ \A id \in DOMAIN analysis_status_store :
            "result" \in DOMAIN analysis_status_store[id] =>
                /\ Len(analysis_status_store[id].result.recommendations) > 0
                /\ Len(analysis_status_store[id].result.next_steps) > 0

\* The fallback result of a run in which no presence rule could fire: no gap
\* analysis, no requirements analysis, an empty report text.
C32_Witness ==
    /\ pc = "done"
    /\ state.final_result # <<>>
    /\ final_report # <<>>
    /\ final_report[1].raw_output = <<>>
    /\ state.gap_analysis_result = <<>>
    /\ state.requirements_analysis_result = <<>>

\* C33: the overall_summary of a completed run's result is the report's raw
\* text cut to the summary limit when that text is non-empty, the fixed sentences
\* of the stages that ran when the report text is empty, the default sentence when
\* no stage output is present either; it is never empty.
C33_SummaryRules ==
    (state.status = COMPLETED /\ state.final_result # <<>> /\ final_report # <<>>) =>
        LET raw == final_report[1].raw_output
            ran == <<state.process_analysis_result, state.requirements_analysis_result,
                     state.gap_analysis_result, state.meeting_analysis_result>>
            sentence == <<"Analise de processos concluida.",
                          "Analise de requisitos realizada.",
                          "Gaps identificados e priorizados.",
                          "Insights extraidos da reuniao.">>
            summary == state.final_result[1].overall_summary
        IN  /\ raw # <<>> => summary = Truncate(raw)
            /\ raw = <<>> =>
                    /\ \A i \in 1..4 :
                            ran[i] # <<>> <=> \E j \in 1..Len(summary) : summary[j] = sentence[i]
                    /\ (\A i \in 1..4 : ran[i] = <<>>) =>
                            summary = <<"Analise SAP concluida com sucesso.">>
            /\ summary # <<>>

\* C34: the counts of a completed run's result follow the raw text of the stage
\* they describe: all are 0 when that stage did not run, gaps_identified is the
\* number of gap keywords and at least 1 when the gap analysis returned a
\* non-empty text, total_requirements at least 1 when the requirements analysis
\* returned a non-empty text.
C34_CountsFollowStageText ==
    (state.status = COMPLETED /\ state.final_result # <<>>) =>
        LET res == state.final_result[1]
            gap == state.gap_analysis_result
            req == state.requirements_analysis_result
        IN  /\ gap = <<>> => res.gaps_identified = 0 /\ res.high_impact_gaps = 0
            /\ req = <<>> => res.total_requirements = 0
            /\ (gap # <<>> /\ gap[1].raw_output # <<>>) =>
                    /\ res.gaps_identified >= 1
                    /\ res.gaps_identified >= CountKeywords(gap[1].raw_output, {"gap"})
            /\ (req # <<>> /\ req[1].raw_output # <<>>) => res.total_requirements >= 1

\* C35: a run has one analysis_id: the key of its entry in the status store is
\* the id in its result and the key under which the result is persisted; the id
\* in the flow's state is the id of its result, and it stays the id the state
\* was given when the run was set up.
C35_OneIdPerRun ==
    /\ [](\A id \in DOMAIN analysis_status_store :
            /\ "result" \in DOMAIN analysis_status_store[id] =>
                    analysis_status_store[id].result.analysis_id = id
            /\ analysis_status_store[id].status = COMPLETED =>
                    /\ id \in DOMAIN analysis_results
                    /\ analysis_results[id].analysis_id = id)
    /\ [](state.final_result # <<>> =>
            state.final_result[1].analysis_id = state.analysis_id)
    /\ [][state'.analysis_id = state.analysis_id]_vars

\* C36: when the task of an analysis is delivered again after its snapshot
\* reached completed or error, the second execution leaves the snapshot's status,
\* progress, result and error_message as they were.
C36_RedeliveryKeepsTerminalSnapshot ==
    [][\A id \in DOMAIN task :
        (/\ task[id] \in {"queued", "finished", "failed"}
         /\ analysis_status_store[id].status \in {COMPLETED, ERROR}) =>
            LET old == analysis_status_store[id]
                new == analysis_status_store'[id]
            IN  /\ new.status = old.status
                /\ new.progress_percentage = old.progress_percentage
                /\ DictGet(new, "result", <<>>) = DictGet(old, "result", <<>>)
                /\ DictGet(new, "error_message", <<>>) = DictGet(old, "error_message", <<>>)]_vars

====
